---------------------------- MODULE Spec2Model ----------------------------
(***************************************************************************)
(* PPT_GENERATOR: a Streamlit form collects a title and topics, asks a     *)
(* generative-text service for one blob of text, cuts the blob into slide  *)
(* fragments and assembles a deck with python-pptx.                        *)
(*                                                                         *)
(*   variant A  src/PPT_GENERATOR/App.py   fixed-length split_content,     *)
(*              deck saved to "<title>.pptx" and re-opened for download    *)
(*   variant B  src/PPT_GENERATOR/App1.py  "Slide <n>:" marker parsing,    *)
(*              deck saved to an in-memory stream                          *)
(*                                                                         *)
(* A Python str is modelled as a sequence of one-character strings, so     *)
(* that slicing, rfind, strip, replace and the regular expressions are     *)
(* computed character by character as the interpreter computes them.       *)
(***************************************************************************)
EXTENDS Integers, Sequences, FiniteSets, TLC

VARIABLES
    \* split_content (App.py), one loop iteration per step
    text,          \* the argument `content` as passed in
    max_length,    \* the argument `max_length`
    content,       \* the local `content`, shortened by the loop
    chunks,        \* the local `chunks`
    sc_pc,         \* "loop" | "done" | "off"
    \* split_into_slides (App1.py)
    blob,          \* the argument `content`
    fragments,     \* the list returned
    mk_pc,         \* "call" | "done" | "off"
    \* the wrapping of split_into_slides undone by remove_double_asteris
    x,             \* the string that is wrapped
    unwrapped,     \* remove_double_asteris of the wrapped string
    fm_pc,         \* "call" | "done" | "off"
    \* the Streamlit application, one script run per session
    variant,       \* "A": App.py is deployed, "B": App1.py is deployed
    api_key,       \* whether GOOGLE_API_KEY was set when the module loaded
    pc,            \* per session: "form" | "generating" | "saved" | "created" | "done"
    title,         \* per session: the title field
    topics,        \* per session: the topics parsed from the text area
    generated,     \* per session: what generate_content returned
    slides,        \* per session, variant B: what create_presentation returned
    built,         \* per session: the deck this run serialized, if any
    download,      \* per session: the data behind the download button, if any
    notice,        \* per session: the last message shown, or "TypeError"
    fs             \* the working directory: file name -> file

splitVars == <<text, max_length, content, chunks, sc_pc>>
markerVars == <<blob, fragments, mk_pc>>
formatVars == <<x, unwrapped, fm_pc>>
appVars == <<variant, api_key, pc, title, topics, generated, slides, built,
             download, notice, fs>>
vars == <<text, max_length, content, chunks, sc_pc, blob, fragments, mk_pc,
          x, unwrapped, fm_pc, variant, api_key, pc, title, topics, generated,
          slides, built, download, notice, fs>>

----------------------------------------------------------------------------
(* Bounds of the model *)

\* longest text handed to split_content
MaxLen == 5
\* largest max_length handed to split_content
MaxCut == 3
\* most pieces a text handed to split_into_slides is put together from
MaxPieces == 4
\* longest string wrapped and unwrapped
MaxX == 4

----------------------------------------------------------------------------
(* Python str primitives *)

\* characters str.strip() with no argument removes
Whitespace == {" ", "\n", "\t", "\r"}

IsSpace(c) == c \in Whitespace

IsDigit(c) == c \in {"0", "1", "2", "3", "4", "5", "6", "7", "8", "9"}

\* s[lo:hi] for 0 <= lo (Python clamps hi to len(s); a negative hi that
\* reaches before lo gives the empty string)
Slice(s, lo, hi) ==
    LET h == IF hi > Len(s) THEN Len(s) ELSE hi
    IN IF lo >= h THEN <<>> ELSE SubSeq(s, lo + 1, h)

\* s.strip(cs): leading and trailing characters of the set cs removed
StripChars(s, cs) ==
    IF \A i \in 1..Len(s) : s[i] \in cs THEN <<>>
    ELSE LET first == CHOOSE i \in 1..Len(s) :
                          /\ s[i] \notin cs
                          /\ \A j \in 1..(i - 1) : s[j] \in cs
             last == CHOOSE i \in 1..Len(s) :
                          /\ s[i] \notin cs
                          /\ \A j \in (i + 1)..Len(s) : s[j] \in cs
         IN SubSeq(s, first, last)

\* s.strip()
strip(s) == StripChars(s, Whitespace)

\* s.rfind(" ", 0, end): the highest 0-based index below end holding a
\* space, -1 when there is none
rfind(s, end) ==
    LET m == IF end > Len(s) THEN Len(s) ELSE end
    IN IF \A i \in 1..m : s[i] # " " THEN -1
       ELSE (CHOOSE i \in 1..m :
                 /\ s[i] = " "
                 /\ \A j \in (i + 1)..m : s[j] # " ") - 1

\* the 1-based position of the first c in s, 0 when there is none
IndexOf(s, c) ==
    IF \A i \in 1..Len(s) : s[i] # c THEN 0
    ELSE CHOOSE i \in 1..Len(s) :
             /\ s[i] = c
             /\ \A j \in 1..(i - 1) : s[j] # c

\* s.split("\n")
RECURSIVE split_lines(_)
split_lines(s) ==
    LET nl == IndexOf(s, "\n")
    IN IF nl = 0 THEN <<s>>
       ELSE <<SubSeq(s, 1, nl - 1)>> \o split_lines(SubSeq(s, nl + 1, Len(s)))

\* sep.join(items)
RECURSIVE join(_, _)
join(sep, items) ==
    IF items = <<>> THEN <<>>
    ELSE IF Len(items) = 1 THEN items[1]
    ELSE items[1] \o sep \o join(sep, Tail(items))

\* s.startswith(w); also: w occurs in s at the 1-based position p
HasAt(s, p, w) ==
    /\ p + Len(w) - 1 <= Len(s)
    /\ \A i \in 1..Len(w) : s[p + i - 1] = w[i]

startswith(s, w) == HasAt(s, 1, w)

\* s.replace(old, new) for a one-character old
replace_char(s, old, new) == [i \in 1..Len(s) |-> IF s[i] = old THEN new ELSE s[i]]

----------------------------------------------------------------------------
(* split_content, App.py lines 40-53 *)

\* split_index with the search for a space not limited to max_length
split_index_unbounded(c, max) ==
    LET found == rfind(c, Len(c))
    IN IF found = -1 THEN max ELSE found

\* lines 47-49: the cut position of one iteration
split_index(c, max) ==
    LET found == rfind(c, max)
    IN IF found = -1 THEN max ELSE found

\* line 50: the chunk appended by one iteration
chunk_of(c, max) == Slice(c, 0, split_index(c, max))

\* rest_of resuming one character after the cut, as if every cut fell on a
\* space
rest_of_skip_separator(c, max) ==
    strip(Slice(c, split_index(c, max) + 1, Len(c)))

\* rest_of without the strip
rest_of_unstripped(c, max) == Slice(c, split_index(c, max), Len(c))

\* line 51: what remains after one iteration
rest_of(c, max) == strip(Slice(c, split_index(c, max), Len(c)))

\* the whole function
RECURSIVE split_content(_, _)
split_content(c, max) ==
    IF Len(c) > max
    THEN <<chunk_of(c, max)>> \o split_content(rest_of(c, max), max)
    ELSE <<c>>

----------------------------------------------------------------------------
(* split_into_slides and remove_double_asteris, App1.py lines 34-52 *)

SlideKw == <<"S", "l", "i", "d", "e", " ">>

\* the position after the longest run of digits that starts at p
DigitsEnd(s, p) ==
    CHOOSE e \in p..(Len(s) + 1) :
        /\ \A j \in p..(e - 1) : IsDigit(s[j])
        /\ e = Len(s) + 1 \/ ~IsDigit(s[e])

\* r"Slide \d+:" matched at position p: the position after the match, 0
\* when it does not match there
MarkerEnd(s, p) ==
    IF ~HasAt(s, p, SlideKw) THEN 0
    ELSE LET d == p + Len(SlideKw)
             e == DigitsEnd(s, d)
         IN IF e > d /\ e <= Len(s) /\ s[e] = ":" THEN e + 1 ELSE 0

\* the lookahead (?=Slide \d+:|$) at position e; without re.MULTILINE, $
\* matches at the end of the string and just before a newline that ends it
Lookahead(s, e) ==
    \/ MarkerEnd(s, e) # 0
    \/ e = Len(s) + 1
    \/ e = Len(s) /\ s[e] = "\n"

\* findall with a greedy .* in place of .*?
RECURSIVE findall_greedy(_, _)
findall_greedy(s, from) ==
    LET starts == {p \in from..Len(s) : MarkerEnd(s, p) # 0}
    IN IF starts = {} THEN <<>>
       ELSE LET p == CHOOSE a \in starts : \A b \in starts : a <= b
                ends == {e \in MarkerEnd(s, p)..(Len(s) + 1) : Lookahead(s, e)}
                e == CHOOSE a \in ends : \A b \in ends : a >= b
            IN <<SubSeq(s, p, e - 1)>> \o findall_greedy(s, e)

\* slide_pattern.findall(content) from position `from` on: leftmost match,
\* .*? extended (re.DOTALL: over newlines too) to the first position where
\* the lookahead holds, the scan resumed where the match ended
RECURSIVE findall(_, _)
findall(s, from) ==
    LET starts == {p \in from..Len(s) : MarkerEnd(s, p) # 0}
    IN IF starts = {} THEN <<>>
       ELSE LET p == CHOOSE a \in starts : \A b \in starts : a <= b
                ends == {e \in MarkerEnd(s, p)..(Len(s) + 1) : Lookahead(s, e)}
                e == CHOOSE a \in ends : \A b \in ends : a <= b
            IN <<SubSeq(s, p, e - 1)>> \o findall(s, e)

\* line 45: f"**{match}"
wrap(match) == <<"*", "*">> \o match

\* lines 43-45: each match loses its last two characters and is wrapped
split_into_slides(c) ==
    LET matches == findall(c, 1)
    IN [i \in 1..Len(matches) |->
           wrap(Slice(matches[i], 0, Len(matches[i]) - 2))]

\* remove_stars removing every "*", as item.replace('*', '') would
remove_stars_single(s) == SelectSeq(s, LAMBDA c : c # "*")

\* item.replace('**', ''): occurrences found left to right, not overlapping
RECURSIVE remove_stars(_)
remove_stars(s) ==
    IF Len(s) < 2 THEN s
    ELSE IF s[1] = "*" /\ s[2] = "*" THEN remove_stars(SubSeq(s, 3, Len(s)))
    ELSE <<s[1]>> \o remove_stars(Tail(s))

\* lines 49-52
remove_double_asteris(input_list) ==
    [i \in 1..Len(input_list) |-> remove_stars(input_list[i])]

----------------------------------------------------------------------------
(* process_slide_title and generate_ppt, App1.py lines 66-108 *)

\* the value None
None == [ok |-> FALSE, no |-> <<>>, title |-> <<>>, points |-> <<>>]

\* lines 66-91: (slide_number, title, points_string), or None
process_slide_title(slide) ==
    LET nl == IndexOf(slide, "\n")
    IN IF nl = 0 THEN None
       ELSE LET slide_header == strip(SubSeq(slide, 1, nl - 1))
                rest == SubSeq(slide, nl + 1, Len(slide))
                d == Len(SlideKw) + 1
                e == DigitsEnd(slide_header, d)
                \* re.match(r"Slide (\d+): (.+)", slide_header)
                match == /\ startswith(slide_header, SlideKw)
                         /\ e > d
                         /\ HasAt(slide_header, e, <<":", " ">>)
                         /\ e + 2 <= Len(slide_header)
            IN IF ~match THEN None
               ELSE LET points == strip(rest)
                        lines == split_lines(points)
                        kept == SelectSeq(lines, LAMBDA l : strip(l) # <<>>)
                        points_list ==
                            [i \in 1..Len(kept) |->
                                strip(StripChars(kept[i], {"*", " "}))]
                    IN [ok |-> TRUE,
                        no |-> SubSeq(slide_header, d, e - 1),
                        title |-> strip(SubSeq(slide_header, e + 2,
                                               Len(slide_header))),
                        points |-> join(<<",", " ">>, points_list)]

\* a slide: its layout (0: title slide, 1: title and content), the text of
\* its title placeholder and of placeholder 1
Slide(layout, t, body) == [layout |-> layout, title |-> t, body |-> body]

\* lines 96-103: the slide added for one fragment
content_slide_B(slide_content) ==
    LET r == process_slide_title(slide_content)
    IN Slide(1, r.no \o <<".">> \o r.title, r.points)

\* line 96: unpacking None raises TypeError
raises_B(slide_list) ==
    \E i \in 1..Len(slide_list) : ~process_slide_title(slide_list[i]).ok

\* lines 93-108: the deck serialized to the stream when nothing is raised
generate_ppt(slide_list) ==
    [i \in 1..Len(slide_list) |-> content_slide_B(slide_list[i])]

----------------------------------------------------------------------------
(* The application: generate_content, create_presentation, the submit     *)
(* handler; App.py lines 16-30, 55-126, 138-155; App1.py lines 16-32,       *)
(* 55-64, 119-143                                                           *)

\* max_length=900 at the call of split_content, App.py line 83
MaxChunk == 900

MissingKey ==
    <<"E", "r", "r", "o", "r", ":", " ", "M", "i", "s", "s", "i", "n", "g",
      " ", "A", "P", "I", " ", "k", "e", "y", ".">>

GenerationFailed ==
    <<"E", "r", "r", "o", "r", " ", "g", "e", "n", "e", "r", "a", "t", "i",
      "n", "g", " ", "c", "o", "n", "t", "e", "n", "t", ".">>

ErrorPrefix == <<"E", "r", "r", "o", "r">>

GeneratedByAI ==
    <<"G", "e", "n", "e", "r", "a", "t", "e", "d", " ", "b", "y", " ", "A", "I">>

Pptx == <<".", "p", "p", "t", "x">>

\* a file, or the stream behind a download button
NoFile == [exists |-> FALSE, deck |-> <<>>]
File(deck) == [exists |-> TRUE, deck |-> deck]

\* what create_presentation of App1.py returns: the error string or the list
ErrorResult(c) == [is_str |-> TRUE, str |-> c, list |-> <<>>]
ListResult(l) == [is_str |-> FALSE, str |-> <<>>, list |-> l]
NoResult == ListResult(<<>>)

\* file_name not depending on the title
file_name_fixed(t) == <<"d", "e", "c", "k">> \o Pptx

\* App.py line 122: f"{title.replace(' ', '_')}.pptx"
file_name(t) == replace_char(t, " ", "_") \o Pptx

\* App.py line 139, App1.py line 120: the topics of the text area
parse_topics(topics_input) ==
    LET lines == split_lines(topics_input)
        kept == SelectSeq(lines, LAMBDA l : strip(l) # <<>>)
    IN [i \in 1..Len(kept) |-> strip(kept[i])]

\* topic_slides with the second loop not skipping the first chunk
topic_slides_repeat_first(topic, cs) ==
    <<Slide(1, topic, cs[1])>>
        \o [j \in 1..Len(cs) |-> Slide(1, topic, cs[j])]

\* App.py lines 83-119: the slides of one topic, the first chunk and then
\* each remaining chunk
topic_slides(topic, cs) ==
    <<Slide(1, topic, cs[1])>>
        \o [j \in 1..(Len(cs) - 1) |-> Slide(1, topic, cs[j + 1])]

\* App.py lines 73-119: the loop over the topics; the one generated text is
\* split again for every topic
RECURSIVE content_slides_A(_, _)
content_slides_A(ts, c) ==
    IF ts = <<>> THEN <<>>
    ELSE topic_slides(Head(ts), split_content(c, MaxChunk))
             \o content_slides_A(Tail(ts), c)

\* create_deck_A with the title slide added after the topics
create_deck_A_title_last(t, ts, c) ==
    content_slides_A(ts, c) \o <<Slide(0, t, GeneratedByAI)>>

\* App.py lines 59-119: the deck create_presentation builds
create_deck_A(t, ts, c) ==
    <<Slide(0, t, GeneratedByAI)>> \o content_slides_A(ts, c)

----------------------------------------------------------------------------
(* Inputs of the model *)

Sessions == {"X", "Y"}

Titles == {<<"a", " ", "b">>, <<"a", "_", "b">>, <<"c">>}

TopicInputs == {<<"A">>, <<"A", "\n", " ", "B">>, <<" ", "\n">>}

FileNames == {file_name(t) : t \in Titles}

Pad(n) == [i \in 1..n |-> "a"]

\* texts the service may answer with, variant A: shorter than MaxChunk;
\* longer with a space to cut at; longer than two chunks with no space
ResponsesA ==
    { <<"h", "i">>,
      Pad(MaxChunk - 3) \o <<" ", "b", "b", " ", "c">>,
      Pad(2 * MaxChunk + 1) }

Marker(d) == SlideKw \o d \o <<":">>

\* texts the service may answer with, variant B
ResponsesB ==
    { \* two well-formed slides in bold markers
      <<"*", "*">> \o Marker(<<"1">>) \o <<" ", "T", "*", "*", "\n", "*", " ",
         "p", "\n", "*", "*">> \o Marker(<<"2">>) \o <<" ", "U", "*", "*",
         "\n", "*", " ", "q", "\n", "\n">>,
      \* one slide whose heading is cut off by the two-character trim
      Marker(<<"1">>) \o <<" ", "T">>,
      \* a well-formed slide followed by a marker with no heading
      Marker(<<"1">>) \o <<" ", "T", "\n", "p", "\n", "\n">>
         \o Marker(<<"2">>) \o <<"\n", "q", "\n", "\n">>,
      \* no marker at all
      <<"h", "i">> }

Responses == IF variant = "A" THEN ResponsesA ELSE ResponsesB

\* generate_content: the sentinel when the key is missing, else the answer
\* of the service or the sentinel of a failed call
Outcomes ==
    IF ~api_key THEN {MissingKey} ELSE Responses \cup {GenerationFailed}

----------------------------------------------------------------------------
(* The sessions *)

InitApp ==
    /\ variant \in {"A", "B"}
    /\ api_key \in BOOLEAN
    /\ pc = [s \in Sessions |-> "form"]
    /\ title = [s \in Sessions |-> <<>>]
    /\ topics = [s \in Sessions |-> <<>>]
    /\ generated = [s \in Sessions |-> <<>>]
    /\ slides = [s \in Sessions |-> NoResult]
    /\ built = [s \in Sessions |-> NoFile]
    /\ download = [s \in Sessions |-> NoFile]
    /\ notice = [s \in Sessions |-> "none"]
    /\ fs = [f \in FileNames |-> NoFile]

\* App.py lines 138-144, App1.py lines 119-125: the form is submitted
Submit(s) ==
    /\ pc[s] = "form"
    /\ \E t \in Titles, topics_input \in TopicInputs :
          LET ts == parse_topics(topics_input)
          IN /\ title' = [title EXCEPT ![s] = t]
             /\ topics' = [topics EXCEPT ![s] = ts]
             /\ IF ts = <<>>
                THEN /\ notice' = [notice EXCEPT ![s] = "no_topics"]
                     /\ pc' = [pc EXCEPT ![s] = "done"]
                ELSE /\ notice' = [notice EXCEPT ![s] = "generating"]
                     /\ pc' = [pc EXCEPT ![s] = "generating"]
    /\ UNCHANGED <<variant, api_key, generated, slides, built, download, fs>>
    /\ UNCHANGED <<splitVars, markerVars, formatVars>>

\* App.py line 145: create_presentation, lines 55-126; the deck is built
\* from whatever generate_content returned and saved under file_name
CreatePresentationA(s) ==
    /\ variant = "A"
    /\ pc[s] = "generating"
    /\ \E c \in Outcomes :
          LET deck == create_deck_A(title[s], topics[s], c)
          IN /\ generated' = [generated EXCEPT ![s] = c]
             /\ built' = [built EXCEPT ![s] = File(deck)]
             /\ fs' = [fs EXCEPT ![file_name(title[s])] = File(deck)]
             \* App.py lines 21 and 29: st.error inside generate_content
             /\ notice' = [notice EXCEPT ![s] =
                              IF c \in {MissingKey, GenerationFailed}
                              THEN "error" ELSE @]
    /\ pc' = [pc EXCEPT ![s] = "saved"]
    /\ UNCHANGED <<variant, api_key, title, topics, slides, download>>
    /\ UNCHANGED <<splitVars, markerVars, formatVars>>

\* App.py lines 146-155: the file is opened again and offered for download
DownloadA(s) ==
    /\ variant = "A"
    /\ pc[s] = "saved"
    /\ download' = [download EXCEPT ![s] = fs[file_name(title[s])]]
    /\ notice' = [notice EXCEPT ![s] = "success"]
    /\ pc' = [pc EXCEPT ![s] = "done"]
    /\ UNCHANGED <<variant, api_key, title, topics, generated, slides, built, fs>>
    /\ UNCHANGED <<splitVars, markerVars, formatVars>>

\* App1.py lines 126-131: create_presentation, lines 55-64
CreatePresentationB(s) ==
    /\ variant = "B"
    /\ pc[s] = "generating"
    /\ \E c \in Outcomes :
          /\ generated' = [generated EXCEPT ![s] = c]
          /\ IF startswith(c, ErrorPrefix)
             THEN /\ slides' = [slides EXCEPT ![s] = ErrorResult(c)]
                  /\ notice' = [notice EXCEPT ![s] = "error"]
                  /\ pc' = [pc EXCEPT ![s] = "done"]
             ELSE /\ slides' = [slides EXCEPT ![s] =
                         ListResult(remove_double_asteris(split_into_slides(c)))]
                  /\ notice' = [notice EXCEPT ![s] = "success"]
                  /\ pc' = [pc EXCEPT ![s] = "created"]
    /\ UNCHANGED <<variant, api_key, title, topics, built, download, fs>>
    /\ UNCHANGED <<splitVars, markerVars, formatVars>>

\* App1.py lines 134-143: generate_ppt, lines 93-108, and the download button
GeneratePptB(s) ==
    /\ variant = "B"
    /\ pc[s] = "created"
    /\ IF raises_B(slides[s].list)
       THEN /\ notice' = [notice EXCEPT ![s] = "TypeError"]
            /\ UNCHANGED <<built, download>>
       ELSE /\ built' = [built EXCEPT ![s] = File(generate_ppt(slides[s].list))]
            /\ download' = [download EXCEPT ![s] =
                                File(generate_ppt(slides[s].list))]
            /\ UNCHANGED notice
    /\ pc' = [pc EXCEPT ![s] = "done"]
    /\ UNCHANGED <<variant, api_key, title, topics, generated, slides, fs>>
    /\ UNCHANGED <<splitVars, markerVars, formatVars>>

----------------------------------------------------------------------------
(* The specifications *)

SplitOff ==
    /\ text = <<>>
    /\ max_length = 0
    /\ content = <<>>
    /\ chunks = <<>>
    /\ sc_pc = "off"

MarkerOff ==
    /\ blob = <<>>
    /\ fragments = <<>>
    /\ mk_pc = "off"

FormatOff ==
    /\ x = <<>>
    /\ unwrapped = <<>>
    /\ fm_pc = "off"

AppOff ==
    /\ variant = "A"
    /\ api_key = FALSE
    /\ pc = [s \in Sessions |-> "off"]
    /\ title = [s \in Sessions |-> <<>>]
    /\ topics = [s \in Sessions |-> <<>>]
    /\ generated = [s \in Sessions |-> <<>>]
    /\ slides = [s \in Sessions |-> NoResult]
    /\ built = [s \in Sessions |-> NoFile]
    /\ download = [s \in Sessions |-> NoFile]
    /\ notice = [s \in Sessions |-> "none"]
    /\ fs = [f \in FileNames |-> NoFile]

(* the application, either variant deployed, two sessions *)

Init == InitApp /\ SplitOff /\ MarkerOff /\ FormatOff

Next ==
    \E s \in Sessions :
        \/ Submit(s)
        \/ CreatePresentationA(s)
        \/ DownloadA(s)
        \/ CreatePresentationB(s)
        \/ GeneratePptB(s)

Spec == Init /\ [][Next]_vars

(* split_content on every text up to MaxLen and every limit up to MaxCut *)

Alphabet == {"a", "b", " ", "\n"}

Strs(A, n) == UNION {[1..k -> A] : k \in 0..n}

InitSplit ==
    /\ text \in Strs(Alphabet, MaxLen)
    /\ max_length \in 1..MaxCut
    /\ content = text
    /\ chunks = <<>>
    /\ sc_pc = "loop"
    /\ MarkerOff /\ FormatOff /\ AppOff

\* App.py lines 45-51: one iteration of the while loop
LoopStep ==
    /\ sc_pc = "loop"
    /\ Len(content) > max_length
    /\ chunks' = Append(chunks, chunk_of(content, max_length))
    /\ content' = rest_of(content, max_length)
    /\ UNCHANGED <<text, max_length, sc_pc>>
    /\ UNCHANGED <<markerVars, formatVars, appVars>>

\* App.py lines 52-53: the loop exits, the remainder is appended and returned
LoopExit ==
    /\ sc_pc = "loop"
    /\ ~(Len(content) > max_length)
    /\ chunks' = Append(chunks, content)
    /\ sc_pc' = "done"
    /\ UNCHANGED <<text, max_length, content>>
    /\ UNCHANGED <<markerVars, formatVars, appVars>>

NextSplit == LoopStep \/ LoopExit

SpecSplit == InitSplit /\ [][NextSplit]_vars

\* the interpreter keeps running the loop
SpecSplitLive == SpecSplit /\ WF_vars(NextSplit)

(* split_into_slides on every text put together from up to MaxPieces pieces *)

Pieces ==
    { Marker(<<"1">>), Marker(<<"2", "3">>), SlideKw, <<"1", ":">>,
      <<" ", "T">>, <<"\n">>, <<"*", "*">>, <<"x", "y", "z">> }

RECURSIVE Blobs(_)
Blobs(n) ==
    IF n = 0 THEN {<<>>}
    ELSE LET shorter == Blobs(n - 1)
         IN shorter \cup {b \o q : b \in shorter, q \in Pieces}

InitMarker ==
    /\ blob \in Blobs(MaxPieces)
    /\ fragments = <<>>
    /\ mk_pc = "call"
    /\ SplitOff /\ FormatOff /\ AppOff

\* App1.py lines 34-47
SplitIntoSlides ==
    /\ mk_pc = "call"
    /\ fragments' = split_into_slides(blob)
    /\ mk_pc' = "done"
    /\ UNCHANGED blob
    /\ UNCHANGED <<splitVars, formatVars, appVars>>

NextMarker == SplitIntoSlides

SpecMarker == InitMarker /\ [][NextMarker]_vars

(* wrapping and unwrapping every string up to MaxX *)

StarAlphabet == {"*", "a", "\n"}

InitFormat ==
    /\ x \in Strs(StarAlphabet, MaxX)
    /\ unwrapped = <<>>
    /\ fm_pc = "call"
    /\ SplitOff /\ MarkerOff /\ AppOff

\* App1.py line 45 followed by line 62
WrapUnwrap ==
    /\ fm_pc = "call"
    /\ unwrapped' = remove_double_asteris(<<wrap(x)>>)[1]
    /\ fm_pc' = "done"
    /\ UNCHANGED x
    /\ UNCHANGED <<splitVars, markerVars, appVars>>

NextFormat == WrapUnwrap

SpecFormat == InitFormat /\ [][NextFormat]_vars

----------------------------------------------------------------------------
(* Claims about split_content *)

\* cs laid over t from position pos on: each chunk is the substring of t at
\* its place, chunks follow each other in order without overlap, and every
\* character of t between two chunks or after the last one is whitespace
RECURSIVE Rebuilds(_, _, _)
Rebuilds(t, cs, pos) ==
    IF cs = <<>> THEN \A j \in pos..Len(t) : IsSpace(t[j])
    ELSE LET c == Head(cs)
             after == pos + Len(c)
         IN /\ after - 1 <= Len(t)
            /\ \A j \in 1..Len(c) : t[pos + j - 1] = c[j]
            /\ IF Len(cs) = 1
               THEN Rebuilds(t, <<>>, after)
               ELSE \E gap \in 0..(Len(t) + 1 - after) :
                       /\ \A j \in after..(after + gap - 1) : IsSpace(t[j])
                       /\ Rebuilds(t, Tail(cs), after + gap)

\* the characters of every chunk, in order
RECURSIVE Flatten(_)
Flatten(cs) == IF cs = <<>> THEN <<>> ELSE Head(cs) \o Flatten(Tail(cs))

\* C4: the chunks split_content returns are, in order, contiguous
\* non-overlapping substrings of the text, the first one starting at the
\* first character, and the only characters of the text in no chunk are
\* whitespace between two consecutive chunks or after the last chunk
C4_RoundTrip == sc_pc = "done" => Rebuilds(text, chunks, 1)

\* a run of three chunks in which whitespace was trimmed between chunks
C4_Witness ==
    /\ sc_pc = "done"
    /\ Len(chunks) >= 3
    /\ Len(Flatten(chunks)) < Len(text)
    /\ \E i \in 1..Len(text) : ~IsSpace(text[i])

\* C5: every chunk split_content returns, the final remainder included, is
\* at most max_length characters long (a single word longer than max_length
\* is hard-cut, so the permitted exception is never needed)
C5_ChunkBound ==
    sc_pc = "done" => \A i \in 1..Len(chunks) : Len(chunks[i]) <= max_length

\* a text that is one word longer than max_length, cut into several chunks
C5_Witness ==
    /\ sc_pc = "done"
    /\ Len(text) > max_length
    /\ \A i \in 1..Len(text) : ~IsSpace(text[i])
    /\ Len(chunks) >= 2

\* C10: every iteration of the loop strictly shortens the remaining text,
\* the loop terminates, and the list returned holds at least one chunk, so
\* content_chunks[0] is defined
C10_Terminates ==
    /\ [][LoopStep => Len(content') < Len(content)]_vars
    /\ <>(sc_pc = "done")
    /\ [](sc_pc = "done" => Len(chunks) >= 1)

\* the loop has returned for a text that starts with a space and whose first
\* cut fell at index 0 (an empty first chunk)
C10_Witness ==
    /\ sc_pc = "done"
    /\ Len(text) > max_length
    /\ text[1] = " "
    /\ chunks[1] = <<>>
    /\ Len(chunks) >= 2

----------------------------------------------------------------------------
(* Claims about split_into_slides and remove_double_asteris *)

\* "Slide <digits>:" occurs in s at position p
Occurs(s, p) ==
    /\ HasAt(s, p, SlideKw)
    /\ \E e \in (p + Len(SlideKw) + 1)..Len(s) :
          /\ \A j \in (p + Len(SlideKw))..(e - 1) : IsDigit(s[j])
          /\ s[e] = ":"

Occurrences(s) == {p \in 1..Len(s) : Occurs(s, p)}

\* the position of the i-th occurrence
NthOccurrence(s, i) ==
    CHOOSE p \in Occurrences(s) :
        Cardinality({r \in Occurrences(s) : r < p}) = i - 1

\* the span from the i-th marker to just before the next one, or to the end
\* of the text
SpanToEnd(s, i) ==
    IF i < Cardinality(Occurrences(s))
    THEN SubSeq(s, NthOccurrence(s, i), NthOccurrence(s, i + 1) - 1)
    ELSE SubSeq(s, NthOccurrence(s, i), Len(s))

\* the same span, except that a newline that ends the text is left out of
\* the last span
SpanToDollar(s, i) ==
    IF i = Cardinality(Occurrences(s)) /\ s[Len(s)] = "\n"
    THEN SubSeq(s, NthOccurrence(s, i), Len(s) - 1)
    ELSE SpanToEnd(s, i)

\* C7 as claimed: for a text with exactly k markers split_into_slides
\* returns k fragments, the i-th being the wrapped span from the i-th marker
\* to just before the next marker or to the end of the text, less its last
\* two characters
C7_SpanToEndOfText ==
    mk_pc = "done" =>
        /\ Len(fragments) = Cardinality(Occurrences(blob))
        /\ \A i \in 1..Len(fragments) :
              fragments[i] =
                  wrap(Slice(SpanToEnd(blob, i), 0, Len(SpanToEnd(blob, i)) - 2))

\* C7 amended: for a text with exactly k markers split_into_slides returns
\* exactly k fragments, the i-th being the wrapped span, less its last two
\* characters, that starts at the i-th marker and ends just before the next
\* marker or at the end of the text, or just before the newline that ends
\* the text
C7_MarkerCount ==
    mk_pc = "done" =>
        /\ Len(fragments) = Cardinality(Occurrences(blob))
        /\ \A i \in 1..Len(fragments) :
              fragments[i] =
                  wrap(Slice(SpanToDollar(blob, i), 0,
                             Len(SpanToDollar(blob, i)) - 2))

\* two fragments returned for a text with text before the first marker and a
\* newline at its end
C7_Witness ==
    /\ mk_pc = "done"
    /\ Len(fragments) = 2
    /\ ~Occurs(blob, 1)
    /\ blob[Len(blob)] = "\n"

NoDoubleStar(s) == \A i \in 1..(Len(s) - 1) : ~(s[i] = "*" /\ s[i + 1] = "*")

\* C8: for every x without "**", removing the marker formatting from the
\* wrapped "**" + x gives back x
C8_WrapRoundTrip == (fm_pc = "done" /\ NoDoubleStar(x)) => unwrapped = x

\* an x that starts and ends with a single "*" was wrapped and unwrapped
C8_Witness ==
    /\ fm_pc = "done"
    /\ NoDoubleStar(x)
    /\ Len(x) >= 3
    /\ x[1] = "*"
    /\ x[Len(x)] = "*"

----------------------------------------------------------------------------
(* Claims about the application *)

\* the session has called generate_content
Generated(s) == pc[s] \in {"saved", "created", "done"} /\ topics[s] # <<>>

\* C1: when GOOGLE_API_KEY is unset, generate_content returns "Error:
\* Missing API key." and no deck is produced: nothing is saved to a file or
\* a stream and no download is offered
C1_NoDeckWithoutKey ==
    ~api_key =>
        /\ \A s \in Sessions :
              /\ Generated(s) => generated[s] = MissingKey
              /\ ~built[s].exists
              /\ ~download[s].exists
        /\ \A f \in FileNames : ~fs[f].exists

\* generate_ppt was called in session s
CalledGeneratePpt(s) ==
    variant = "B" /\ pc[s] = "done" /\ notice[s] \in {"success", "TypeError"}

WellFormed(fragment) == process_slide_title(fragment).ok

\* C2: a fragment process_slide_title cannot decompose is skipped by
\* generate_ppt: nothing is raised, every other fragment gets its slide and
\* the deck is serialized
C2_MalformedSkipped ==
    \A s \in Sessions :
        CalledGeneratePpt(s) =>
            /\ notice[s] # "TypeError"
            /\ built[s] = File(generate_ppt(SelectSeq(slides[s].list, WellFormed)))

\* the topics (variant A) or fragments (variant B) of the deck of session s
Units(s) == IF variant = "A" THEN topics[s] ELSE slides[s].list

IsTitleSlide(sl, t) == sl = Slide(0, t, GeneratedByAI)

\* one title slide first, then content slides only, at least one per unit
TitleThenContent(s) ==
    LET d == built[s].deck
    IN /\ Len(d) >= 1 + Len(Units(s))
       /\ IsTitleSlide(d[1], title[s])
       /\ \A i \in 2..Len(d) : d[i].layout = 1

C6_SlideCount ==
    \A s \in Sessions :
        (variant = "A" /\ built[s].exists) =>
            LET d == built[s].deck
                cs == split_content(generated[s], MaxChunk)
                n == Len(cs)
            IN /\ Len(d) = 1 + Len(topics[s]) * n
               /\ IsTitleSlide(d[1], title[s])
               /\ \A t \in 1..Len(topics[s]) : \A j \in 1..n :
                     d[1 + (t - 1) * n + j] = Slide(1, topics[s][t], cs[j])
               /\ fs[file_name(title[s])].exists

\* two topics, a text of three chunks: seven slides
C6_Witness ==
    /\ variant = "A"
    /\ \E s \in Sessions :
          /\ built[s].exists
          /\ Len(topics[s]) = 2
          /\ Len(built[s].deck) = 7

\* C9: nothing but the title, its spaces replaced by "_", separates the
\* files of two sessions: the deck a session serves is its own or the deck
\* saved by a session whose title gives the same name, never the deck of a
\* session whose title gives another name
C9_ServesSamePath ==
    \A s \in Sessions :
        download[s].exists =>
            \E t \in Sessions :
                /\ replace_char(title[t], " ", "_") = replace_char(title[s], " ", "_")
                /\ download[s] = built[t]

\* the race: X and Y submitted the same title, Y saved after X saved and
\* before X opened the file, and X's download is the deck generated for Y
C9_Witness ==
    /\ variant = "A"
    /\ title["X"] = title["Y"]
    /\ download["X"].exists
    /\ download["X"] # built["X"]
    /\ download["X"] = built["Y"]

=============================================================================
